---- MODULE Spec2Model ----
(***************************************************************************)
(* A model of AlphaRouter's MCTS test driver (main_mcts_test.py), shared   *)
(* utilities (src/common/utils.py), routing models (src/models/...) and    *)
(* the policy-gradient trainer (src/pretrain_model/pretrainer_module_pl).  *)
(***************************************************************************)
EXTENDS Integers, Sequences, FiniteSets, TLC

VARIABLES
    \* ---- run_parallel_test (main_mcts_test.py) ----
    param_ranges,    \* the parameter grid: key |-> list of candidate values
    ckpt_files,      \* the checkpoint files on disk, per result directory
    num_proc,        \* worker count
    pc,              \* position of the main thread in run_parallel_test
    next_task,       \* index of the next (grid point, checkpoint) pair
    task_queue,      \* tasks handed to the pool and not yet picked by a worker
    running,         \* tasks being run by a pool worker
    task_result,     \* task index |-> the tuple its run_test returned
    queue_buffer,    \* async_result: objects put, not yet flushed by the feeder
    queue_pipe,      \* async_result: objects in the pipe, visible to empty()/get()
    result_dict,     \* result_dir -> load_epoch -> test_data_idx -> entry
    ret,             \* what run_parallel_test returned
    join_done,       \* pool.close() and pool.join() have returned
    failed,          \* the pool tasks whose run_test raised
    \* ---- src/common/utils.py ----
    tracer,          \* sys.gettrace(): the attached tracer, or the absent value
    call,            \* the last utility call: its name, arguments and result
    heap,            \* the mutable objects mappings refer to: id |-> content
    \* ---- src/models: CVRPModel, TSPModel ----
    model_type,      \* "cvrp" or "tsp": which model class self.model is
    encoding,        \* self.encoding: the cached encoder output, or absent
    obs,             \* the observation handed to the next forward pass
    heads,           \* raw outputs of the network heads for that observation
    fwd_out,         \* what the last forward pass returned
    \* ---- AMTrainer.training_step ----
    t_pc,            \* "idle", "loop" (in the rollout loop) or "returned"
    done,            \* the loop variable done
    prob_lst,        \* per step, the log-probability of each sampled action
    entropy_lst,     \* per step, the entropy of each action distribution
    val_lst,         \* per step, the value estimate of each batch entry
    reward,          \* the reward returned by the last env.step (0 before)
    loss,            \* the total loss training_step returned
    ent_coef,        \* self.ent_coef, in tenths
    episodes,        \* training steps started so far
    init_obs,        \* the observation env.reset() returned this episode
    enc_runs,        \* encoder runs since the episode began
    env_hist,        \* what env.step returned at each step: dones and reward
    \* ---- the file system, the root logger and the result summaries ----
    dirs,            \* the directories that exist (paths from the working directory)
    files,           \* the files that exist: path |-> content
    handlers,        \* logging.getLogger().handlers
    log_call,        \* the last create_logger call and how it ended
    prog,            \* the entry point running: run_cross_test, main or debug
    s_pc,            \* its position
    s_result,        \* result (main, debug) or test_result (run_cross_test)
    s_todo,          \* the result directories still to be written
    s_err,           \* the exception that ended the run, if any
    s_calls,         \* run_test calls made by run_cross_test
    s_existed        \* output directories found in place by the directory step

parVars == <<param_ranges, ckpt_files, num_proc, pc, next_task, task_queue,
             running, task_result, queue_buffer, queue_pipe, result_dict, ret,
             join_done, failed>>

utilVars == <<tracer, call, heap>>

modelVars == <<model_type, encoding, obs, heads, fwd_out>>

trainVars == <<t_pc, done, prob_lst, entropy_lst, val_lst, reward, loss,
               ent_coef, episodes, init_obs, enc_runs, env_hist>>

fsVars == <<dirs, files, handlers, log_call, prog, s_pc, s_result, s_todo,
            s_err, s_calls, s_existed>>

nonParVars == <<utilVars, modelVars, trainVars, fsVars>>
nonUtilVars == <<parVars, modelVars, trainVars, fsVars>>
nonModelVars == <<parVars, utilVars, trainVars, fsVars>>
nonFsVars == <<parVars, utilVars, modelVars, trainVars>>

vars == <<parVars, utilVars, modelVars, trainVars, fsVars>>

----------------------------------------------------------------------------
\* Bounds of the model.
MaxRange == 2      \* longest list of candidate values in the grid
MaxTasks == 3      \* most (grid point, checkpoint) pairs of a grid
MaxCkpt == 1       \* most checkpoint files of a result directory

----------------------------------------------------------------------------
\* Generic helpers.

Range(f) == {f[x] : x \in DOMAIN f}

SeqsUpTo(S, n) == UNION {[1..k -> S] : k \in 0..n}

RECURSIVE Gcd(_, _)
Gcd(a, b) == IF b = 0 THEN a ELSE Gcd(b, a % b)

Abs(x) == IF x < 0 THEN -x ELSE x

\* A rational number num/den (den > 0) in lowest terms.
Rat(num, den) ==
    LET g == Gcd(Abs(num), den)
    IN  <<num \div g, den \div g>>

RECURSIVE SumOver(_, _)
SumOver(S, f) ==
    IF S = {} THEN 0
    ELSE LET x == CHOOSE y \in S : TRUE
         IN  f[x] + SumOver(S \ {x}, f)

\* The absent value (Python's None), a pending call, and a returned value.
None == [kind |-> "none"]
Pending == [kind |-> "pending"]
Value(v) == [kind |-> "value", value |-> v]

----------------------------------------------------------------------------
\* src/common/utils.py and the helpers of run_parallel_test.

NumSimulations == {20, 50}
TestDataIdx == {0, 1}
CkptStems == <<"best", "last", "epoch1">>
\* The worker counts tried: the synchronous path and a pool.
NumProcs == {1, 2}
\* The (score, runtime) pairs run_mcts_test may return.
RunOutcomes == {<<1, 3>>, <<2, 5>>}

\* The keys of the mappings handed to dict_product, in insertion order.
KeyOrder == <<"num_simulations", "test_data_idx", "cpuct">>

\* The keys of a mapping, in insertion order: what iterating the dict yields.
RECURSIVE KeysFrom(_, _)
KeysFrom(dicts, i) ==
    IF i > Len(KeyOrder) THEN <<>>
    ELSE (IF KeyOrder[i] \in DOMAIN dicts THEN <<KeyOrder[i]>> ELSE <<>>)
         \o KeysFrom(dicts, i + 1)

\* itertools.product(*lists): every tuple with one element of each list, the
\* rightmost list advancing fastest; one empty tuple for no list at all.
RECURSIVE itertools_product(_)
itertools_product(lists) ==
    IF lists = <<>> THEN << <<>> >>
    ELSE LET h == Head(lists)
             rest == itertools_product(Tail(lists))
         IN  [k \in 1..(Len(h) * Len(rest)) |->
                 <<h[((k - 1) \div Len(rest)) + 1]>>
                     \o rest[((k - 1) % Len(rest)) + 1]]

\* dict(zip(keys, x)): the mapping pairing the i-th key with the i-th element.
DictZip(keys, x) ==
    [key \in Range(keys) |-> x[CHOOSE i \in 1..Len(keys) : keys[i] = key]]

\* A dict_product that pairs the lists position by position (zip) instead of
\* taking their product.
dict_product_Zipped(dicts) ==
    LET keys == KeysFrom(dicts, 1)
        n == IF keys = <<>> THEN 1
             ELSE CHOOSE m \in {Len(dicts[k]) : k \in Range(keys)} :
                      \A k \in Range(keys) : m <= Len(dicts[k])
    IN  [i \in 1..n |-> [key \in Range(keys) |-> dicts[key][i]]]

\* dict_product(dicts):
\*   list(dict(zip(dicts, x)) for x in itertools.product(*dicts.values()))
dict_product(dicts) ==
    LET keys == KeysFrom(dicts, 1)
        product == itertools_product([i \in 1..Len(keys) |-> dicts[keys[i]]])
    IN  [k \in 1..Len(product) |-> DictZip(keys, product[k])]

\* get_result_dir(params, mcts=True): the result folder of a configuration; the
\* test instance index is not part of the folder signature.
get_result_dir(params) == <<"ns", params.num_simulations>>

\* collect_all_checkpoints(params): the checkpoint files found under the root.
collect_all_checkpoints(params) ==
    [k \in 1..Len(ckpt_files[params.num_simulations]) |->
        [root |-> get_result_dir(params),
         file |-> ckpt_files[params.num_simulations][k]]]

\* x.split('/')[-1].split('\\')[-1].split('.ckpt')[0]
CheckpointName(f) == f.file

\* The kwargs of the run_test call of every (grid point, checkpoint) pair, in
\* dispatch order (the two nested for loops).
RECURSIVE InputParamsFrom(_, _)
InputParamsFrom(grid, k) ==
    IF k > Len(grid) THEN <<>>
    ELSE LET params == grid[k]
             all_files == collect_all_checkpoints(params)
             result_dir == get_result_dir(params)
         IN  [c \in 1..Len(all_files) |->
                 [num_simulations |-> params.num_simulations,
                  test_data_idx |-> params.test_data_idx,
                  load_epoch |-> CheckpointName(all_files[c]),
                  result_dir |-> result_dir]]
             \o InputParamsFrom(grid, k + 1)

AllInputParams == InputParamsFrom(dict_product(param_ranges), 1)

\* run_test(**kwargs) returns (score, runtime, test_data_idx, load_epoch, result_dir)
run_test(kwargs, score, runtime) ==
    [score |-> score, runtime |-> runtime,
     test_data_idx |-> kwargs.test_data_idx,
     load_epoch |-> kwargs.load_epoch,
     result_dir |-> kwargs.result_dir]

\* The body of the drain loop: store one tuple in the nested mapping.
StoreResult(d, val) ==
    LET d1 == IF val.result_dir \in DOMAIN d THEN d
              ELSE d @@ (val.result_dir :> <<>>)
        e == d1[val.result_dir]
        e1 == IF val.load_epoch \in DOMAIN e THEN e
              ELSE e @@ (val.load_epoch :> <<>>)
        t == e1[val.load_epoch]
        entry == [score |-> val.score, runtime |-> val.runtime]
        t1 == IF val.test_data_idx \in DOMAIN t
              THEN [t EXCEPT ![val.test_data_idx] = entry]
              ELSE t @@ (val.test_data_idx :> entry)
    IN  [d1 EXCEPT ![val.result_dir] = [e1 EXCEPT ![val.load_epoch] = t1]]

\* cal_average_std: mean and spread of score and runtime over the instances.
\* The spread is kept as the population variance (its square).
cal_average_std(epoch_result) ==
    LET keys == DOMAIN epoch_result
        n == Cardinality(keys)
        sc == [k \in keys |-> epoch_result[k].score]
        rt == [k \in keys |-> epoch_result[k].runtime]
        sq(f) == [k \in keys |-> f[k] * f[k]]
        avg(f) == Rat(SumOver(keys, f), n)
        var(f) == Rat(n * SumOver(keys, sq(f)) - SumOver(keys, f) * SumOver(keys, f),
                      n * n)
    IN  [average |-> [score |-> avg(sc), runtime |-> avg(rt)],
         std |-> [score |-> var(sc), runtime |-> var(rt)]]

\* Lines 91-102: collapse every load_epoch level into its aggregate.
Organize(d) ==
    [dir \in DOMAIN d |->
        [ep \in DOMAIN d[dir] |-> cal_average_std(d[dir][ep])]]

\* No trainer is in use.
TrainIdle ==
    /\ t_pc = "idle"
    /\ done = FALSE
    /\ prob_lst = <<>>
    /\ entropy_lst = <<>>
    /\ val_lst = <<>>
    /\ reward = None
    /\ loss = None
    /\ ent_coef = 0
    /\ episodes = 0
    /\ init_obs = None
    /\ enc_runs = 0
    /\ env_hist = <<>>

\* No model is in use.
ModelIdle ==
    /\ model_type = "none"
    /\ encoding = None
    /\ obs = None
    /\ heads = None
    /\ fwd_out = None
    /\ TrainIdle

\* No entry point is running, nothing is on disk and no logger is configured.
FsIdle ==
    /\ dirs = {<<>>}
    /\ files = <<>>
    /\ handlers = <<>>
    /\ log_call = None
    /\ prog = "none"
    /\ s_pc = "idle"
    /\ s_result = None
    /\ s_todo = <<>>
    /\ s_err = None
    /\ s_calls = 0
    /\ s_existed = {}

----------------------------------------------------------------------------
\* run_parallel_test

ParInit ==
    /\ param_ranges \in [num_simulations : SeqsUpTo(NumSimulations, MaxRange),
                         test_data_idx : SeqsUpTo(TestDataIdx, MaxRange)]
    /\ ckpt_files \in [NumSimulations ->
                         {SubSeq(CkptStems, 1, k) : k \in 0..MaxCkpt}]
    /\ Len(AllInputParams) <= MaxTasks
    /\ num_proc \in NumProcs
    /\ pc = "dispatch"
    /\ next_task = 1
    /\ task_queue = <<>>
    /\ running = {}
    /\ task_result = <<>>
    /\ queue_buffer = <<>>
    /\ queue_pipe = <<>>
    /\ result_dict = <<>>
    /\ ret = Pending
    /\ join_done = FALSE
    /\ failed = {}
    /\ tracer = None
    /\ call = None
    /\ heap = <<>>
    /\ ModelIdle
    /\ FsIdle

\* async_result.put(val): the object is appended to the queue's buffer; the
\* queue's feeder thread writes it to the pipe later.
QueuePut(buffer, val) == Append(buffer, val)

\* async_result.empty(): true when nothing can be read from the pipe.
QueueEmpty == queue_pipe = <<>>

\* The feeder thread of async_result flushes the oldest buffered object.
Feeder ==
    /\ queue_buffer # <<>>
    /\ queue_pipe' = Append(queue_pipe, Head(queue_buffer))
    /\ queue_buffer' = Tail(queue_buffer)
    /\ UNCHANGED <<nonParVars, failed, param_ranges, ckpt_files, num_proc, pc, next_task, task_queue,
                   running, task_result, result_dict, ret, join_done>>

\* Line 56: pool.apply_async(run_test, kwds=input_params, callback=__callback)
ApplyAsync ==
    /\ pc = "dispatch"
    /\ num_proc > 1
    /\ next_task <= Len(AllInputParams)
    /\ task_queue' = Append(task_queue, next_task)
    /\ next_task' = next_task + 1
    /\ UNCHANGED <<nonParVars, failed, param_ranges, ckpt_files, num_proc, pc, running, task_result,
                   queue_buffer, queue_pipe, result_dict, ret, join_done>>

\* A free pool worker picks the oldest waiting task.
WorkerStart ==
    /\ task_queue # <<>>
    /\ Cardinality(running) < num_proc
    /\ running' = running \cup {Head(task_queue)}
    /\ task_queue' = Tail(task_queue)
    /\ UNCHANGED <<nonParVars, failed, param_ranges, ckpt_files, num_proc, pc, next_task, task_result,
                   queue_buffer, queue_pipe, result_dict, ret, join_done>>

\* A worker's run_test returns; the pool's result handler calls __callback,
\* which puts the returned tuple into async_result (lines 40-41).
WorkerFinish ==
    \E t \in running, out \in RunOutcomes :
        LET val == run_test(AllInputParams[t], out[1], out[2])
        IN  /\ running' = running \ {t}
            /\ task_result' = task_result @@ (t :> val)
            /\ queue_buffer' = QueuePut(queue_buffer, val)
            /\ UNCHANGED <<nonParVars, failed, param_ranges, ckpt_files, num_proc, pc, next_task,
                           task_queue, queue_pipe, result_dict, ret, join_done>>

\* Lines 58-59: pool.close(); pool.join() returns once every task has finished
\* and its callback has run.
PoolCloseJoin ==
    /\ pc = "dispatch"
    /\ num_proc > 1
    /\ next_task > Len(AllInputParams)
    /\ task_queue = <<>>
    /\ running = {}
    /\ pc' = "check"
    /\ join_done' = TRUE
    /\ UNCHANGED <<nonParVars, failed, param_ranges, ckpt_files, num_proc, next_task, task_queue,
                   running, task_result, queue_buffer, queue_pipe, result_dict, ret>>

\* Line 72: async_result.put(run_test(**input_params)), in the calling process.
SyncRunTest ==
    /\ pc = "dispatch"
    /\ num_proc <= 1
    /\ next_task <= Len(AllInputParams)
    /\ \E out \in RunOutcomes :
        LET val == run_test(AllInputParams[next_task], out[1], out[2])
        IN  /\ task_result' = task_result @@ (next_task :> val)
            /\ queue_buffer' = QueuePut(queue_buffer, val)
    /\ next_task' = next_task + 1
    /\ UNCHANGED <<nonParVars, failed, param_ranges, ckpt_files, num_proc, pc, task_queue, running,
                   queue_pipe, result_dict, ret, join_done>>

\* The synchronous loop (lines 62-72) is over.
SyncLoopEnd ==
    /\ pc = "dispatch"
    /\ num_proc <= 1
    /\ next_task > Len(AllInputParams)
    /\ pc' = "check"
    /\ UNCHANGED <<nonParVars, failed, param_ranges, ckpt_files, num_proc, next_task, task_queue,
                   running, task_result, queue_buffer, queue_pipe, result_dict,
                   ret, join_done>>

\* A bug returning the (empty) result mapping instead of nothing.
EmptyReturn_Mapping == Value(<<>>)

\* Line 75: a bare return, i.e. the absent value.
EmptyReturn == None

\* Lines 74-75: if async_result.empty(): return
CheckEmpty ==
    /\ pc = "check"
    /\ IF QueueEmpty
       THEN /\ pc' = "done"
            /\ ret' = EmptyReturn
       ELSE /\ pc' = "drain"
            /\ ret' = ret
    /\ UNCHANGED <<nonParVars, failed, param_ranges, ckpt_files, num_proc, next_task, task_queue,
                   running, task_result, queue_buffer, queue_pipe, result_dict,
                   join_done>>

\* Lines 77-89: one turn of the drain loop.
DrainGet ==
    /\ pc = "drain"
    /\ ~QueueEmpty
    /\ result_dict' = StoreResult(result_dict, Head(queue_pipe))
    /\ queue_pipe' = Tail(queue_pipe)
    /\ UNCHANGED <<nonParVars, failed, param_ranges, ckpt_files, num_proc, pc, next_task, task_queue,
                   running, task_result, queue_buffer, ret, join_done>>

\* Lines 77, 91-102: the drain loop ends, the aggregates are built and returned.
OrganizeReturn ==
    /\ pc = "drain"
    /\ QueueEmpty
    /\ ret' = Value(Organize(result_dict))
    /\ pc' = "done"
    /\ UNCHANGED <<nonParVars, failed, param_ranges, ckpt_files, num_proc, next_task, task_queue,
                   running, task_result, queue_buffer, queue_pipe, result_dict,
                   join_done>>

ParNext ==
    \/ ApplyAsync
    \/ WorkerStart
    \/ WorkerFinish
    \/ PoolCloseJoin
    \/ SyncRunTest
    \/ SyncLoopEnd
    \/ Feeder
    \/ CheckEmpty
    \/ DrainGet
    \/ OrganizeReturn

SpecPar == ParInit /\ [][ParNext]_vars

\* A worker's run_test raises. The pool hands the exception to the task's
\* AsyncResult, which nobody reads; without an error_callback nothing is
\* called, so nothing is put into async_result, and the task is not run again.
WorkerRaise ==
    \E t \in running :
        /\ running' = running \ {t}
        /\ failed' = failed \cup {t}
        /\ UNCHANGED <<nonParVars, param_ranges, ckpt_files, num_proc, pc, next_task,
                       task_queue, task_result, queue_buffer, queue_pipe,
                       result_dict, ret, join_done>>

\* Pool runs (num_proc > 1) in which run_test may raise.
ParFailInit ==
    /\ ParInit
    /\ num_proc > 1

ParFailNext ==
    \/ ApplyAsync
    \/ WorkerStart
    \/ WorkerFinish
    \/ WorkerRaise
    \/ PoolCloseJoin
    \/ Feeder
    \/ CheckEmpty
    \/ DrainGet
    \/ OrganizeReturn

SpecParFail == ParFailInit /\ [][ParFailNext]_vars

----------------------------------------------------------------------------
\* Claims about run_parallel_test.

\* The nested mapping built from the results of every dispatched task, stored
\* in dispatch order: what the synchronous loop puts into the queue.
RECURSIVE StoreAllFrom(_, _)
StoreAllFrom(k, d) ==
    IF k > Len(AllInputParams) THEN d
    ELSE StoreAllFrom(k + 1, StoreResult(d, task_result[k]))

AllTasksFinished == DOMAIN task_result = 1..Len(AllInputParams)

ExpectedReturn ==
    IF Len(AllInputParams) = 0 THEN None
    ELSE Value(Organize(StoreAllFrom(1, <<>>)))

\* C1: whatever the worker count and the order in which workers complete, the
\* call returns the mapping result_dir -> load_epoch -> aggregate built from
\* the results of all dispatched tasks (the one the synchronous loop yields).
C1_SameAggregateAnyWorkerCount ==
    pc = "done" => ret = ExpectedReturn

\* The results stored so far, as a set of (key, entry) facts.
Stored(val) ==
    /\ val.result_dir \in DOMAIN result_dict
    /\ val.load_epoch \in DOMAIN result_dict[val.result_dir]
    /\ val.test_data_idx \in DOMAIN result_dict[val.result_dir][val.load_epoch]

\* C2: with a pool, nothing is taken from the queue before close/join, that
\* is before every dispatched task has finished; and at return every result a
\* callback put has been consumed: the queue is empty and the result is stored
\* under its result_dir / load_epoch / test_data_idx.
C2_DrainAfterJoinAndComplete ==
    num_proc > 1 =>
        /\ (pc \in {"drain", "done"} \/ result_dict # <<>>) =>
                join_done /\ AllTasksFinished
        /\ pc = "done" =>
                /\ queue_buffer = <<>> /\ queue_pipe = <<>>
                /\ \A t \in DOMAIN task_result : Stored(task_result[t])

\* C3: a grid that expands to no (grid point, checkpoint) pair makes the call
\* return the absent value, not an empty mapping, for every worker count.
C3_EmptyGridReturnsNone ==
    (pc = "done" /\ Len(AllInputParams) = 0) => ret = None

\* A pool run over grid points that all have an empty checkpoint list returned.
C3_Witness ==
    /\ pc = "done"
    /\ num_proc > 1
    /\ Len(dict_product(param_ranges)) > 0
    /\ Len(AllInputParams) = 0
    /\ ret = None

----------------------------------------------------------------------------
\* src/common/utils.py: check_debug, parse_saved_model_dir, explained_variance

MaxLen == 2        \* longest array handed to explained_variance

\* A floating-point result: not-a-number, or the rational num/den in lowest terms.
NaN == [kind |-> "nan"]
Num(n, d) == [kind |-> "num", num |-> Rat(n, d)[1], den |-> Rat(n, d)[2]]
Raised(e) == [kind |-> "raised", error |-> e]

\* A check_debug with the test the wrong way round.
check_debug_Inverted == IF (tracer = None) = TRUE THEN TRUE ELSE FALSE

\* check_debug(): eq = sys.gettrace() is None; True if eq is False, else False.
check_debug ==
    LET eq == (tracer = None)
    IN  IF eq = FALSE THEN TRUE ELSE FALSE

\* f"{args.ent_coef:.4f}": ent_coef, held in units of 1e-5, to four decimals.
Format4(x) == (x + 5) \div 10

\* The Arguments objects tried: the fields parse_saved_model_dir reads.
ArgsSet ==
    [env_type : {"tsp", "cvrp"}, num_nodes : {20}, num_episode : {1024},
     nn : {"shared_mlp"}, embedding_dim : {128}, encoder_layer_num : {6},
     qkv_dim : {32}, head_num : {4}, C : {10}, num_simulations : {50},
     temp_threshold : {5}, cpuct : {"1.1"}, normalize_value : {TRUE},
     rollout_game : {FALSE}, ent_coef : {1000, 1006}]

\* result_folder_name, a path held as the sequence of its segments (lines 415-428).
ResultFolderName(args, result_dir, name_prefix, mcts_param, ignore_debug) ==
    LET env_param_nm == <<args.env_type,
                          <<"N", args.num_nodes, "B", args.num_episode>>>>
        model_param_nm == <<<<args.nn, args.embedding_dim, args.encoder_layer_num,
                              args.qkv_dim, args.head_num, args.C>>>>
        mcts_param_nm ==
            IF mcts_param
            THEN <<<<"ns", args.num_simulations, "temp", args.temp_threshold,
                     "cpuct", args.cpuct, "norm", args.normalize_value,
                     "rollout", args.rollout_game, "ec", Format4(args.ent_coef)>>>>
            ELSE <<>>
        result_folder_name ==
            <<".", result_dir, name_prefix>> \o env_param_nm \o model_param_nm
                \o mcts_param_nm
    IN  IF ~ignore_debug /\ check_debug
        THEN <<".", "debug">> \o Tail(result_folder_name)
        ELSE result_folder_name

\* A parse_saved_model_dir that answers the absent value whenever load_epoch is
\* absent, before looking at return_checkpoint.
parse_saved_model_dir_NoneFirst(args, result_dir, name_prefix, load_epoch, mcts_param, return_checkpoint, ignore_debug) ==
    LET result_folder_name ==
            ResultFolderName(args, result_dir, name_prefix, mcts_param, ignore_debug)
    IN  IF load_epoch = None THEN None
        ELSE IF return_checkpoint
        THEN Value(result_folder_name
                     \o <<"saved_models", <<"checkpoint", load_epoch.value, "pt">>>>)
        ELSE Value(result_folder_name)

\* parse_saved_model_dir (lines 413-438).
parse_saved_model_dir(args, result_dir, name_prefix, load_epoch, mcts_param, return_checkpoint, ignore_debug) ==
    LET result_folder_name ==
            ResultFolderName(args, result_dir, name_prefix, mcts_param, ignore_debug)
    IN  IF return_checkpoint
        THEN IF load_epoch # None
             THEN Value(result_folder_name
                          \o <<"saved_models", <<"checkpoint", load_epoch.value, "pt">>>>)
             ELSE None
        ELSE Value(result_folder_name)

\* Sum of the elements of a sequence, and of their squares.
RECURSIVE SeqSum(_)
SeqSum(x) == IF x = <<>> THEN 0 ELSE Head(x) + SeqSum(Tail(x))

Squares(x) == [i \in DOMAIN x |-> x[i] * x[i]]

\* np.var: the population variance, a rational; not-a-number for an empty array.
NpVar(x) ==
    LET n == Len(x)
    IN  IF n = 0 THEN NaN
        ELSE Num(n * SeqSum(Squares(x)) - SeqSum(x) * SeqSum(x), n * n)

\* numpy broadcasting of two one-dimensional arrays.
Broadcastable(a, b) == Len(a) = Len(b) \/ Len(a) = 1 \/ Len(b) = 1

NpSub(a, b) ==
    LET n == IF Len(a) = Len(b) THEN Len(a)
             ELSE IF Len(a) = 1 THEN Len(b) ELSE Len(a)
        at(x, i) == IF Len(x) = 1 THEN x[1] ELSE x[i]
    IN  [i \in 1..n |-> at(a, i) - at(b, i)]

\* An explained_variance without the zero-variance guard taking precedence: a
\* perfect prediction is answered first.
explained_variance_PerfectFirst(y_pred, y_true) ==
    IF y_true.ndim # 1 \/ y_pred.ndim # 1 THEN Raised("AssertionError")
    ELSE IF y_pred.data = y_true.data THEN Num(1, 1)
    ELSE LET var_y == NpVar(y_true.data)
         IN  IF var_y = Num(0, 1) THEN NaN
             ELSE IF ~Broadcastable(y_true.data, y_pred.data)
             THEN Raised("ValueError")
             ELSE LET var_d == NpVar(NpSub(y_true.data, y_pred.data))
                  IN  Num(var_d.den * var_y.num - var_d.num * var_y.den,
                          var_d.den * var_y.num)

\* explained_variance (lines 102-110): nan if var_y == 0, else
\* 1 - var(y_true - y_pred) / var_y.
explained_variance(y_pred, y_true) ==
    IF y_true.ndim # 1 \/ y_pred.ndim # 1 THEN Raised("AssertionError")
    ELSE LET var_y == NpVar(y_true.data)
         IN  IF var_y = Num(0, 1) THEN NaN
             ELSE IF ~Broadcastable(y_true.data, y_pred.data)
             THEN Raised("ValueError")
             ELSE IF var_y = NaN THEN NaN
             ELSE LET var_d == NpVar(NpSub(y_true.data, y_pred.data))
                  IN  Num(var_d.den * var_y.num - var_d.num * var_y.den,
                          var_d.den * var_y.num)

ArrayValues == {1, 5}
Arrays == [ndim : {1}, data : SeqsUpTo(ArrayValues, MaxLen)]
              \cup {[ndim |-> 2, data |-> <<>>]}

ParIdle ==
    /\ param_ranges = [num_simulations |-> <<>>, test_data_idx |-> <<>>]
    /\ ckpt_files = [n \in NumSimulations |-> <<>>]
    /\ num_proc = 1
    /\ pc = "idle"
    /\ next_task = 1
    /\ task_queue = <<>>
    /\ running = {}
    /\ task_result = <<>>
    /\ queue_buffer = <<>>
    /\ queue_pipe = <<>>
    /\ result_dict = <<>>
    /\ ret = Pending
    /\ join_done = FALSE
    /\ failed = {}

UtilInit ==
    /\ tracer \in {None, Value("pydevd")}
    /\ call = None
    /\ heap = <<>>
    /\ ParIdle
    /\ ModelIdle
    /\ FsIdle

CallCheckDebug ==
    /\ call' = [fn |-> "check_debug", result |-> check_debug]
    /\ UNCHANGED <<tracer, heap, nonUtilVars>>

CallParseSavedModelDir ==
    /\ \E args \in ArgsSet, result_dir \in {"pretrained_result"},
          name_prefix \in {"", "exp"}, load_epoch \in {None, Value("best")},
          mcts_param \in BOOLEAN, return_checkpoint \in BOOLEAN,
          ignore_debug \in BOOLEAN :
            call' = [fn |-> "parse_saved_model_dir",
                     args |-> args, name_prefix |-> name_prefix,
                     load_epoch |-> load_epoch, mcts_param |-> mcts_param,
                     return_checkpoint |-> return_checkpoint,
                     ignore_debug |-> ignore_debug,
                     result |-> parse_saved_model_dir(args, result_dir, name_prefix,
                                    load_epoch, mcts_param, return_checkpoint,
                                    ignore_debug)]
    /\ UNCHANGED <<tracer, heap, nonUtilVars>>

CallExplainedVariance ==
    /\ \E y_pred \in Arrays, y_true \in Arrays :
            call' = [fn |-> "explained_variance",
                     y_pred |-> y_pred, y_true |-> y_true,
                     result |-> explained_variance(y_pred, y_true)]
    /\ UNCHANGED <<tracer, heap, nonUtilVars>>

UtilNext ==
    \/ CallCheckDebug
    \/ CallParseSavedModelDir
    \/ CallExplainedVariance

SpecUtil == UtilInit /\ [][UtilNext]_vars

Called(fn) == call # None /\ call.fn = fn

\* C5 as claimed: check_debug() is true when no tracer is attached.
C5_TrueWhenNoTracer ==
    Called("check_debug") => (call.result = TRUE <=> tracer = None)

\* C5: check_debug() returns true exactly when a tracer is attached to the
\* process (sys.gettrace() is not None), and false when none is.
C5_TrueWhenTracerAttached ==
    Called("check_debug") => (call.result = TRUE <=> tracer # None)

C5_Witness == Called("check_debug") /\ tracer = None /\ call.result = FALSE

\* C6 as claimed: with load_epoch absent the result is the absent value.
C6_NoneWheneverEpochAbsent ==
    (Called("parse_saved_model_dir") /\ call.load_epoch = None)
        => call.result = None

\* C6: with load_epoch absent, parse_saved_model_dir returns the absent value
\* exactly when return_checkpoint is set, whatever mcts_param, ignore_debug and
\* the debug detection say; otherwise it returns the result folder name, which
\* names no checkpoint file.
C6_NoneIffReturnCheckpoint ==
    (Called("parse_saved_model_dir") /\ call.load_epoch = None) =>
        /\ call.result = None <=> call.return_checkpoint
        /\ ~call.return_checkpoint =>
              /\ call.result.kind = "value"
              /\ call.result.value[1] = "."
              /\ "saved_models" \notin Range(call.result.value)
              /\ (call.result.value[2] = "debug"
                    <=> (~call.ignore_debug /\ tracer # None))

C6_Witness ==
    /\ Called("parse_saved_model_dir")
    /\ call.load_epoch = None
    /\ ~call.return_checkpoint
    /\ call.mcts_param
    /\ call.result # None

IsConstant(x) == \A i, j \in DOMAIN x : x[i] = x[j]

EqualLength1D(c) ==
    /\ c.y_pred.ndim = 1
    /\ c.y_true.ndim = 1
    /\ Len(c.y_pred.data) = Len(c.y_true.data)

----------------------------------------------------------------------------
\* src/models/cvrp_model/models.py and src/models/tsp_model/models.py

MaxCells == 4      \* most entries (batch x trajectories x nodes) of a mask

NegInf == [kind |-> "-inf"]

RECURSIVE Pow2(_)
Pow2(n) == IF n = 0 THEN 1 ELSE 2 * Pow2(n - 1)

RECURSIVE SumTo(_, _)
SumTo(f, n) == IF n < 0 THEN 0 ELSE f[n] + SumTo(f, n - 1)

\* mask = zeros_like(available); mask[available == False] = -inf
AdditiveMask(available) ==
    [b \in DOMAIN available |->
        [p \in DOMAIN available[b] |->
            [n \in DOMAIN available[b][p] |->
                IF available[b][p][n] = FALSE THEN NegInf ELSE Num(0, 1)]]]

\* C * tanh(x): a monotone squashing of the scaled score into [-C, C].
ClipTanh(C, x) == IF x > C THEN C ELSE IF x < -C THEN -C ELSE x

\* x + m for a finite score x and a mask entry m.
AddMask(x, m) == IF m.kind = "-inf" THEN NegInf ELSE Num(x + m.num, 1)

\* F.softmax over the node axis of one row of masked scores (each at least -C):
\* the weight of a finite score x is 2^(x + C), that of minus infinity is 0; a
\* row of minus infinities gives not-a-number everywhere.
Softmax(row, C) ==
    LET last == Cardinality(DOMAIN row) - 1
        w == [n \in DOMAIN row |->
                 IF row[n].kind = "-inf" THEN 0 ELSE Pow2(row[n].num + C)]
        total == SumTo(w, last)
    IN  [n \in DOMAIN row |-> IF total = 0 THEN NaN ELSE Num(w[n], total)]

\* A Policy.forward that forgets to add the mask.
Policy_forward_NoMask(score, mask, C, sqrt_embedding_dim) ==
    [b \in DOMAIN score |->
        [p \in DOMAIN score[b] |->
            Softmax([n \in DOMAIN score[b][p] |->
                        Num(ClipTanh(C, score[b][p][n] \div sqrt_embedding_dim), 1)],
                    C)]]

\* Policy.forward (tsp_model/models.py lines 118-142).
Policy_forward(score, mask, C, sqrt_embedding_dim) ==
    LET score_scaled ==
            [b \in DOMAIN score |-> [p \in DOMAIN score[b] |->
                [n \in DOMAIN score[b][p] |->
                    score[b][p][n] \div sqrt_embedding_dim]]]
        score_clipped ==
            [b \in DOMAIN score |-> [p \in DOMAIN score[b] |->
                [n \in DOMAIN score[b][p] |->
                    ClipTanh(C, score_scaled[b][p][n])]]]
        score_masked ==
            [b \in DOMAIN score |-> [p \in DOMAIN score[b] |->
                [n \in DOMAIN score[b][p] |->
                    AddMask(score_clipped[b][p][n], mask[b][p][n])]]]
    IN  [b \in DOMAIN score |-> [p \in DOMAIN score[b] |->
            Softmax(score_masked[b][p], C)]]

\* The Policy head of model_common used by CVRPModel: a masked softmax.
CommonPolicy(score, mask, C, sqrt_embedding_dim) ==
    Policy_forward(score, mask, C, sqrt_embedding_dim)

\* self.encoder(xy) / self.encoder(xy, demands): the encoding of an instance.
Encoder(kind, o) ==
    IF kind = "cvrp" THEN Value(<<"enc", o.xy, o.demands>>)
    ELSE Value(<<"enc", o.xy>>)

\* if self.encoding is None: self.encoding = self.encoder(...)
EncodingAfterForward(kind, enc, o) ==
    IF enc = None THEN Encoder(kind, o) ELSE enc

FwdValue(probs, val) == [kind |-> "value", probs |-> probs, val |-> val]

\* TSPModel.forward (lines 46-72): the probabilities, flattened to (B, N).
TSPModel_forward(enc, o, h) ==
    LET mask == AdditiveMask(o.available)
        new_encoding == EncodingAfterForward("tsp", enc, o)
        probs == Policy_forward(h.score, mask, h.C, h.sqrt_embedding_dim)
    IN  [encoding |-> new_encoding,
         out |-> FwdValue([b \in DOMAIN probs |-> probs[b][0]],
                          [b \in DOMAIN probs |-> h.val])]

\* probs[:, arange(pomo_size), arange(N)] = arange(N) on a tensor of zeros.
RampAssign(B, pomo, N) ==
    IF pomo = N \/ pomo = 1 \/ N = 1
    THEN [kind |-> "value",
          probs |-> [b \in 0..(B - 1) |-> [p \in 0..(pomo - 1) |->
                       [n \in 0..(N - 1) |->
                           IF pomo = N /\ p = n THEN Num(n, 1)
                           ELSE IF pomo = 1 /\ N > 1 THEN Num(n, 1)
                           ELSE Num(0, 1)]]]]
    ELSE Raised("IndexError")

\* A CVRPModel.forward whose first step goes through the policy head.
CVRPModel_forward_NoDepotForcing(enc, o, h) ==
    LET mask == AdditiveMask(o.available)
        probs == CommonPolicy(h.score, mask, h.C, h.sqrt_embedding_dim)
    IN  [encoding |-> EncodingAfterForward("cvrp", enc, o),
         out |-> FwdValue(probs,
                          [b \in 0..(o.B - 1) |-> [p \in 0..(o.pomo - 1) |-> h.val]])]

\* CVRPModel.forward (lines 54-93).
CVRPModel_forward(enc, o, h) ==
    LET batch_size == o.B
        pomo_size == o.pomo
        N == o.N
        mask == AdditiveMask(o.available)
        new_encoding == EncodingAfterForward("cvrp", enc, o)
        val == [b \in 0..(batch_size - 1) |-> [p \in 0..(pomo_size - 1) |-> h.val]]
        depot == [b \in 0..(batch_size - 1) |-> [p \in 0..(pomo_size - 1) |->
                     [n \in 0..(N - 1) |-> IF n = 0 THEN Num(1, 1) ELSE Num(0, 1)]]]
        ramp == RampAssign(batch_size, pomo_size, N)
    IN  [encoding |-> new_encoding,
         out |-> IF o.t = 0 THEN FwdValue(depot, val)
                 ELSE IF o.t = 1
                 THEN IF ramp.kind = "raised" THEN ramp
                      ELSE FwdValue(ramp.probs, val)
                 ELSE FwdValue(CommonPolicy(h.score, mask, h.C,
                                            h.sqrt_embedding_dim), val)]

ScoreValues == {-4, 2}

\* The observations of a given shape, and the head outputs for them.
ObsSet(kind, B, pomo, N) ==
    [xy : {"p1"}, demands : {"d1"}, B : {B}, pomo : {pomo}, N : {N},
     t : IF kind = "cvrp" THEN {0, 1, 2} ELSE {2},
     available : [0..(B - 1) -> [0..(pomo - 1) -> [0..(N - 1) -> BOOLEAN]]]]

HeadsSet(B, pomo, N) ==
    [score : [0..(B - 1) -> [0..(pomo - 1) -> [0..(N - 1) -> ScoreValues]]],
     val : {0}, C : {1}, sqrt_embedding_dim : {2}]

FwdInit ==
    /\ model_type \in {"cvrp", "tsp"}
    /\ \E B \in 1..MaxCells, pomo \in 1..MaxCells, N \in 1..MaxCells :
        /\ B * pomo * N <= MaxCells
        /\ model_type = "tsp" => pomo = 1
        /\ obs \in ObsSet(model_type, B, pomo, N)
        /\ heads \in HeadsSet(B, pomo, N)
    /\ encoding \in {None, Encoder(model_type, [xy |-> "p0", demands |-> "d0"])}
    /\ fwd_out = None
    /\ TrainIdle
    /\ tracer = None
    /\ call = None
    /\ heap = <<>>
    /\ ParIdle
    /\ FsIdle

\* probs, val = self.model(obs) on a CVRPModel.
CVRPForward ==
    /\ model_type = "cvrp"
    /\ LET r == CVRPModel_forward(encoding, obs, heads)
       IN  /\ fwd_out' = r.out
           /\ encoding' = r.encoding
    /\ UNCHANGED <<model_type, obs, heads, nonModelVars>>

\* probs, val = self.model(obs) on a TSPModel.
TSPForward ==
    /\ model_type = "tsp"
    /\ LET r == TSPModel_forward(encoding, obs, heads)
       IN  /\ fwd_out' = r.out
           /\ encoding' = r.encoding
    /\ UNCHANGED <<model_type, obs, heads, nonModelVars>>

FwdNext ==
    \/ CVRPForward
    \/ TSPForward

SpecFwd == FwdInit /\ [][FwdNext]_vars

\* C8: a CVRP forward pass on an observation with t = 0 returns probability 1
\* at node 0 and 0 at every other node, for every batch entry and trajectory,
\* whatever the mask and the network outputs.
C8_DepotForcedAtStepZero ==
    (model_type = "cvrp" /\ fwd_out # None /\ obs.t = 0) =>
        /\ fwd_out.kind = "value"
        /\ DOMAIN fwd_out.probs = 0..(obs.B - 1)
        /\ \A b \in 0..(obs.B - 1) :
            /\ DOMAIN fwd_out.probs[b] = 0..(obs.pomo - 1)
            /\ \A p \in 0..(obs.pomo - 1) :
                /\ DOMAIN fwd_out.probs[b][p] = 0..(obs.N - 1)
                /\ \A n \in 0..(obs.N - 1) :
                      fwd_out.probs[b][p][n] = IF n = 0 THEN Num(1, 1) ELSE Num(0, 1)

\* A step-0 pass over two trajectories whose mask rules the depot out.
C8_Witness ==
    /\ model_type = "cvrp"
    /\ fwd_out # None
    /\ obs.t = 0
    /\ obs.pomo = 2 /\ obs.N = 2
    /\ obs.available[0][1][0] = FALSE
    /\ obs.available[0][0][1] = TRUE
    /\ fwd_out.probs[0][1][0] = Num(1, 1)

SomeAvailable(b) == \E n \in 0..(obs.N - 1) : obs.available[b][0][n]

\* The sum of the (rational) probabilities of a row, times their common
\* denominator, which is the least common multiple of their denominators
\* bounded by the product.
RECURSIVE DenProduct(_, _)
DenProduct(row, n) == IF n < 0 THEN 1 ELSE row[n].den * DenProduct(row, n - 1)

RowSumsToOne(row, N) ==
    LET D == DenProduct(row, N - 1)
        scaled == [n \in 0..(N - 1) |-> row[n].num * (D \div row[n].den)]
    IN  SumTo(scaled, N - 1) = D

\* C9 as claimed: for every mask, every unavailable node has probability 0.
C9_UnavailableGetZero ==
    (model_type = "tsp" /\ fwd_out # None) =>
        \A b \in 0..(obs.B - 1), n \in 0..(obs.N - 1) :
            ~obs.available[b][0][n] => fwd_out.probs[b][n] = Num(0, 1)

\* C9: in every row of the mask that has at least one available node, each
\* unavailable node gets probability 0, each available node gets a positive
\* probability and the row sums to 1; a row with no available node gets
\* not-a-number everywhere.
C9_MaskedSoftmax ==
    (model_type = "tsp" /\ fwd_out # None) =>
        \A b \in 0..(obs.B - 1) :
            IF SomeAvailable(b)
            THEN /\ \A n \in 0..(obs.N - 1) :
                        IF obs.available[b][0][n]
                        THEN /\ fwd_out.probs[b][n].kind = "num"
                             /\ fwd_out.probs[b][n].num > 0
                        ELSE fwd_out.probs[b][n] = Num(0, 1)
                 /\ RowSumsToOne(fwd_out.probs[b], obs.N)
            ELSE \A n \in 0..(obs.N - 1) : fwd_out.probs[b][n] = NaN

\* A pass over a row with one unavailable and two available nodes of
\* different scores.
C9_Witness ==
    /\ model_type = "tsp"
    /\ fwd_out # None
    /\ obs.N = 3
    /\ ~obs.available[0][0][0]
    /\ obs.available[0][0][1]
    /\ obs.available[0][0][2]
    /\ heads.score[0][0][1] # heads.score[0][0][2]
    /\ fwd_out.probs[0][0] = Num(0, 1)

----------------------------------------------------------------------------
\* src/pretrain_model/pretrainer_module_pl.py: AMTrainer.training_step

MaxSteps == 2      \* the rollout is followed for at most MaxSteps steps
MaxEpisodes == 2   \* training steps run

Instances == {"p1", "p2"}
BatchSizes == {1, 2}
TrainNodes == {0, 1}
\* What one batch entry contributes at one step: the log-probability of the
\* sampled action, the entropy of the distribution, the value estimate.
StepOutcomes == {[l |-> -1, H |-> 1, v |-> 0], [l |-> -2, H |-> 2, v |-> 3]}
EnvRewards == {2, 2049}

\* torch.as_tensor(x, dtype=torch.float16) for an integer x: eleven significant
\* bits, round to nearest, ties to even; beyond the largest half it is infinite.
RECURSIVE Ulp16(_, _)
Ulp16(a, step) == IF a < 2048 * step THEN step ELSE Ulp16(a, 2 * step)

Float16(x) ==
    LET a == Abs(x)
        step == Ulp16(a, 1)
        q == a \div step
        rem == a % step
        up == 2 * rem > step \/ (2 * rem = step /\ q % 2 = 1)
        m == IF up THEN (q + 1) * step ELSE q * step
    IN  IF m > 65504 THEN [kind |-> IF x < 0 THEN "-inf" ELSE "inf"]
        ELSE IF x < 0 THEN -m ELSE m

\* Arithmetic on the rational results.
AddNum(a, b) ==
    LET L == (a.den \div Gcd(a.den, b.den)) * b.den
    IN  Num(a.num * (L \div a.den) + b.num * (L \div b.den), L)
MulNum(a, b) == Num(a.num * b.num, a.den * b.den)

RECURSIVE SumSeq(_, _)
SumSeq(f, n) == IF n = 0 THEN 0 ELSE f[n] + SumSeq(f, n - 1)

\* The sum over batch entries b and steps t of g[b, t].
SumBT(B, T, g) ==
    SumSeq([t \in 1..T |-> SumTo([b \in 0..(B - 1) |-> g[b, t]], B - 1)], T)

\* A trainer that keeps the cache of the previous episode.
ResetEncoding_Keep(enc) == enc

\* Line 50: self.model.encoding = None
ResetEncoding(enc) == None

\* Lines 69-70 of the models' forward: how many times the encoder runs.
EncoderRuns(enc) == IF enc = None THEN 1 ELSE 0

\* self.model(obs)
ModelForward(kind, enc, o, h) ==
    IF kind = "cvrp" THEN CVRPModel_forward(enc, o, h)
    ELSE TSPModel_forward(enc, o, h)

\* An observation of the training environment: one trajectory per batch
\* entry, every entry with an available node.
EnvObs(inst, B, t, first_open) ==
    [xy |-> inst, demands |-> "d1", B |-> B, pomo |-> 1,
     N |-> Cardinality(TrainNodes), t |-> t,
     available |-> [b \in 0..(B - 1) |-> [p \in {0} |->
                      [n \in TrainNodes |-> n > 0 \/ first_open]]]]

\* The head outputs in training: node n scores 2n.
TrainHeads(B) ==
    [score |-> [b \in 0..(B - 1) |-> [p \in {0} |-> [n \in TrainNodes |-> 2 * n]]],
     val |-> 0, C |-> 1, sqrt_embedding_dim |-> 2]

\* A total loss whose value term lacks the factor 0.5.
TotalLoss_NoHalf(probs, entropies, vals, rew, coef, B) ==
    LET T == Len(probs)
        r(b) == -Float16(rew[b])
        adv(b, t) == r(b) - vals[t][b]
        advlp(b, t) == adv(b, t) * probs[t][b]
        ent(b, t) == entropies[t][b]
        sq(b, t) == (vals[t][b] - r(b)) * (vals[t][b] - r(b))
    IN  AddNum(AddNum(Num(SumBT(B, T, [b \in 0..(B - 1), t \in 1..T |-> advlp(b, t)]), B), Num(SumBT(B, T, [b \in 0..(B - 1), t \in 1..T |-> sq(b, t)]), B * T)),
               MulNum(Num(coef, 10), Num(-SumBT(B, T, [b \in 0..(B - 1), t \in 1..T |-> ent(b, t)]), B * T)))

\* Lines 73-88: the total loss.
TotalLoss(probs, entropies, vals, rew, coef, B) ==
    LET T == Len(probs)
        \* reward = -torch.as_tensor(reward, device=self.device, dtype=torch.float16)
        r(b) == -Float16(rew[b])
        \* adv = broadcast_to(reward[:, None], val_tensor.shape) - baseline
        adv(b, t) == r(b) - vals[t][b]
        advlp(b, t) == adv(b, t) * probs[t][b]
        ent(b, t) == entropies[t][b]
        sq(b, t) == (vals[t][b] - r(b)) * (vals[t][b] - r(b))
        \* p_loss = (adv.detach() * log_prob).sum(dim=-1).mean()
        p_loss == Num(SumBT(B, T, [b \in 0..(B - 1), t \in 1..T |-> advlp(b, t)]), B)
        \* entropy = -torch.cat(entropy_lst, dim=-1).mean()
        entropy == Num(-SumBT(B, T, [b \in 0..(B - 1), t \in 1..T |-> ent(b, t)]), B * T)
        \* val_loss = 0.5 * F.mse_loss(val_tensor, reward.unsqueeze(-1).detach())
        val_loss == MulNum(Num(1, 2), Num(SumBT(B, T, [b \in 0..(B - 1), t \in 1..T |-> sq(b, t)]), B * T))
    IN  \* loss = p_loss + val_loss + self.ent_coef * entropy
        AddNum(AddNum(p_loss, val_loss), MulNum(Num(coef, 10), entropy))

TrainInit ==
    /\ model_type \in {"cvrp", "tsp"}
    /\ encoding = None
    /\ obs = None
    /\ heads = None
    /\ fwd_out = None
    /\ t_pc = "idle"
    /\ done = FALSE
    /\ prob_lst = <<>>
    /\ entropy_lst = <<>>
    /\ val_lst = <<>>
    /\ reward = None
    /\ loss = None
    /\ ent_coef = 1
    /\ episodes = 0
    /\ init_obs = None
    /\ enc_runs = 0
    /\ env_hist = <<>>
    /\ tracer = None
    /\ call = None
    /\ heap = <<>>
    /\ ParIdle
    /\ FsIdle

\* A loop that stops as soon as one trajectory is reported done.
AllDone_Any(dones) == \E b \in DOMAIN dones : dones[b]

\* Line 67: done = bool(np.all(dones == True))
AllDone(dones) == \A b \in DOMAIN dones : dones[b]

\* Lines 49-57: done = False; the cache is cleared; obs, _ = self.env.reset().
TrainingStepStart ==
    /\ t_pc \in {"idle", "returned"}
    /\ episodes < MaxEpisodes
    /\ episodes' = episodes + 1
    /\ done' = FALSE
    /\ encoding' = ResetEncoding(encoding)
    /\ \E inst \in Instances, B \in BatchSizes :
        /\ model_type = "cvrp" => B = 1
        /\ obs' = EnvObs(inst, B, 0, TRUE)
    /\ init_obs' = obs'
    /\ prob_lst' = <<>>
    /\ entropy_lst' = <<>>
    /\ val_lst' = <<>>
    /\ reward' = [b \in 0..(obs'.B - 1) |-> 0]
    /\ loss' = None
    /\ enc_runs' = 0
    /\ env_hist' = <<>>
    /\ t_pc' = "loop"
    /\ UNCHANGED <<model_type, heads, fwd_out, ent_coef, parVars, utilVars, fsVars>>

\* Lines 59-71: one turn of the rollout loop.
RolloutStep ==
    /\ t_pc = "loop"
    /\ ~done
    /\ Len(prob_lst) < MaxSteps
    /\ \E first_open \in BOOLEAN, dones \in [0..(obs.B - 1) -> BOOLEAN],
          outcome \in {[b \in 0..(obs.B - 1) |-> o] : o \in StepOutcomes},
          rew \in {[b \in 0..(obs.B - 1) |-> x] : x \in EnvRewards} :
        LET h == TrainHeads(obs.B)
            r == ModelForward(model_type, encoding, obs, h)
        IN  /\ heads' = h
            /\ fwd_out' = r.out
            /\ encoding' = r.encoding
            /\ enc_runs' = enc_runs + EncoderRuns(encoding)
            /\ obs' = EnvObs(obs.xy, obs.B, obs.t + 1, first_open)
            /\ reward' = rew
            /\ done' = AllDone(dones)
            /\ env_hist' = Append(env_hist, [dones |-> dones, reward |-> rew])
            /\ prob_lst' = Append(prob_lst, [b \in 0..(obs.B - 1) |-> outcome[b].l])
            /\ entropy_lst' = Append(entropy_lst,
                                     [b \in 0..(obs.B - 1) |-> outcome[b].H])
            /\ val_lst' = Append(val_lst, [b \in 0..(obs.B - 1) |-> outcome[b].v])
    /\ UNCHANGED <<model_type, t_pc, loss, ent_coef, episodes, init_obs,
                   parVars, utilVars, fsVars>>

\* Lines 73-105: the loss is computed and returned.
TrainingStepReturn ==
    /\ t_pc = "loop"
    /\ done
    /\ loss' = TotalLoss(prob_lst, entropy_lst, val_lst, reward, ent_coef, obs.B)
    /\ t_pc' = "returned"
    /\ UNCHANGED <<modelVars, done, prob_lst, entropy_lst, val_lst, reward,
                   ent_coef, episodes, init_obs, enc_runs, env_hist, parVars,
                   utilVars, fsVars>>

TrainNext ==
    \/ TrainingStepStart
    \/ RolloutStep
    \/ TrainingStepReturn

SpecTrain == TrainInit /\ [][TrainNext]_vars

\* Control leaves the loop and reaches the return: the step TrainingStepReturn
\* takes, seen on the control position alone.
LoopExit == t_pc = "loop" /\ done /\ t_pc' = "returned"

\* training_step runs its statements one after the other: once the loop has
\* ended, the statements after it (lines 73-105) are run and the step returns.
SpecTrainLive ==
    /\ TrainInit
    /\ [][TrainNext]_vars
    /\ WF_t_pc(LoopExit)

\* The environment reported every trajectory done at step i of the episode.
ReportedAllDone(i) == \A b \in DOMAIN env_hist[i].dones : env_hist[i].dones[b]

\* The shape of the rollout loop: the three lists hold one entry per
\* environment step; no step before the last reported every trajectory done;
\* the loop has ended exactly if the last step did; a returned training step
\* took at least one step and computed its loss from the last step's reward.
C17_LoopShape ==
    t_pc \in {"loop", "returned"} =>
        LET steps == Len(env_hist)
        IN  /\ Len(prob_lst) = steps
            /\ Len(entropy_lst) = steps
            /\ Len(val_lst) = steps
            /\ \A i \in 1..(steps - 1) : ~ReportedAllDone(i)
            /\ done <=> (steps >= 1 /\ ReportedAllDone(steps))
            /\ t_pc = "returned" =>
                  /\ steps >= 1
                  /\ done
                  /\ loss = TotalLoss(prob_lst, entropy_lst, val_lst,
                                      env_hist[steps].reward, ent_coef, obs.B)

\* C17: the rollout loop of training_step takes at least one environment step
\* and stops exactly after the first step at which every trajectory is
\* reported done; at its exit the lists of log-probabilities, entropies and
\* value estimates hold one entry per step taken and the loss uses the reward
\* of the last step; the training step returns if and only if the environment
\* comes to report all trajectories done.
C17_RolloutLoop ==
    /\ []C17_LoopShape
    /\ (t_pc = "loop" /\ done) ~> (t_pc = "returned")

\* C17 witness: a batch of two whose first step reported only one trajectory
\* done, returned after the second step.
C17_Witness ==
    /\ t_pc = "returned"
    /\ obs.B = 2
    /\ Len(env_hist) = 2
    /\ env_hist[1].dones[0]
    /\ ~env_hist[1].dones[1]
    /\ Len(prob_lst) = 2
    /\ loss # None

\* C4: in every training step the cache is absent until the first forward
\* pass of the episode; from then on the encoder has run exactly once in the
\* episode and the cache holds the encoding of this episode's initial
\* observation, never one of an earlier episode (CVRPModel and TSPModel alike).
C4_EncodingOncePerEpisode ==
    t_pc \in {"loop", "returned"} =>
        IF Len(prob_lst) = 0
        THEN encoding = None /\ enc_runs = 0
        ELSE /\ enc_runs = 1
             /\ encoding = Encoder(model_type, init_obs)

\* The second forward pass of a second episode.
C4_Witness ==
    /\ episodes = 2
    /\ t_pc = "loop"
    /\ Len(prob_lst) = 2
    /\ enc_runs = 1
    /\ encoding = Encoder(model_type, init_obs)

\* C10: for an episode of one step and one batch entry with log-probability
\* l, entropy H, value estimate v and final reward r, the returned loss is
\* (r - v)*l + 0.5*(v - r)^2 - ent_coef*H. Here r is the trainer's reward
\* tensor of line 73: the negated reward of the last environment step, held
\* in half precision.
C10_SingleStepLoss ==
    (t_pc = "returned" /\ Len(prob_lst) = 1 /\ obs.B = 1) =>
        LET l == prob_lst[1][0]
            H == entropy_lst[1][0]
            v == val_lst[1][0]
            r == -Float16(reward[0])
        IN  loss = Num(20 * (r - v) * l + 10 * (v - r) * (v - r)
                         - 2 * ent_coef * H, 20)

\* A one-step episode whose last reward, 2049, is no half-precision number.
C10_Witness ==
    /\ t_pc = "returned"
    /\ Len(prob_lst) = 1
    /\ obs.B = 1
    /\ val_lst[1][0] = 3
    /\ prob_lst[1][0] = -2
    /\ entropy_lst[1][0] = 2
    /\ reward[0] = 2049
    /\ loss = Num(20 * (-2051) * (-2) + 10 * 2051 * 2051 - 2 * 2, 20)

----------------------------------------------------------------------------
\* Mappings: dict_product, concat_key_val (src/common/utils.py) and the
\* parameter overrides of AMTrainer.__init__.

MaxOverrides == 2     \* most override mappings handed to concat_key_val

\* The mappings handed to dict_product: any keys, lists of up to MaxRange
\* candidate values, repeated values included.
DictsSet ==
    UNION {[S -> SeqsUpTo(NumSimulations, MaxRange)] : S \in SUBSET Range(KeyOrder)}

\* ---- Python values: immutable numbers and references to mutable objects.
IntVal(n) == [kind |-> "int", v |-> n]
Ref(id) == [kind |-> "ref", v |-> id]

\* What a mapping holds once its references are followed.
Deref(m, h) ==
    [k \in DOMAIN m |->
        IF m[k].kind = "ref" THEN [kind |-> "list", v |-> h[m[k].v]] ELSE m[k]]

\* The objects a mapping refers to.
Cells(m) == {m[k].v : k \in {x \in DOMAIN m : m[x].kind = "ref"}}

\* copy.copy(m): a new mapping holding the same objects.
deepcopy_Shallow(m, h) == [map |-> m, heap |-> h]

\* copy.deepcopy(m): a new mapping whose objects are fresh copies, one per
\* object of m (the memo keeps shared objects shared).
deepcopy(m, h) ==
    LET cells == Cells(m)
        rank(c) == Cardinality({d \in cells : d <= c})
        fresh(c) == Len(h) + rank(c)
    IN  [map |-> [k \in DOMAIN m |->
                    IF m[k].kind = "ref" THEN Ref(fresh(m[k].v)) ELSE m[k]],
         heap |-> [i \in 1..(Len(h) + Cardinality(cells)) |->
                    IF i <= Len(h) THEN h[i]
                    ELSE h[CHOOSE c \in cells : fresh(c) = i]]]

\* result[k] = v
SetItem(m, k, v) == [x \in DOMAIN m \cup {k} |-> IF x = k THEN v ELSE m[x]]

\* for k, v in param_group.items(): result[k] = v
DictUpdate(m, o) ==
    [x \in DOMAIN m \cup DOMAIN o |-> IF x \in DOMAIN o THEN o[x] ELSE m[x]]

\* del result[k]
DelItem(m, k) == [x \in DOMAIN m \ {k} |-> m[x]]

RECURSIVE UpdateAll(_, _, _)
UpdateAll(m, groups, i) ==
    IF i > Len(groups) THEN m ELSE UpdateAll(DictUpdate(m, groups[i]), groups, i + 1)

\* concat_key_val(*args), called with at least the base mapping; the heap the
\* call leaves and the mapping it returns.
concat_key_val(args, h) ==
    LET copied == deepcopy(args[1], h)
        merged == UpdateAll(copied.map, args, 2)
        result == IF "device" \in DOMAIN merged THEN DelItem(merged, "device")
                  ELSE merged
    IN  [result |-> result, heap |-> copied.heap]

BaseKeys == {"lr", "seed", "device"}
OverrideKeys == {"lr", "device"}
ParamValues == {IntVal(1), Ref(1)}
MappingsOver(keys) == UNION {[S -> ParamValues] : S \in SUBSET keys}

\* ---- AMTrainer.__init__
\* The classes a parameter mapping may be of: a plain dict, or a mapping class
\* whose attribute assignment stores an item.
MappingKinds == {"dict", "attrdict"}

EnvTypes == {"tsp", "cvrp"}
GroupNames == <<"env_params", "model_params", "optimizer_params", "run_params">>
ConfigValue == [env_type |-> "cvrp", num_nodes |-> 50, ent_coef |-> 2, batch |-> 7]
ConfigKeys == <<"env_type", "num_nodes", "ent_coef", "batch">>
Configs == UNION {[S -> {0}] : S \in SUBSET Range(ConfigKeys)}

\* setattr(params, key, value): on a plain dict an AttributeError ('dict'
\* object has no attribute ...); on an attribute-style mapping the item is set.
SetAttr(kind, params, key, value) ==
    IF kind = "dict" THEN Raised("AttributeError")
    ELSE Value(SetItem(params, key, value))

\* Lines 22-26 for the groups from the g-th on under one config key: the groups
\* after the overrides, or the exception raised.
RECURSIVE OverrideGroups(_, _, _, _, _)
OverrideGroups(kind, groups, key, value, g) ==
    IF g > Len(GroupNames) THEN Value(groups)
    ELSE LET name == GroupNames[g]
         IN  IF key \in DOMAIN groups[name]
             THEN LET set == SetAttr(kind, groups[name], key, value)
                  IN  IF set.kind = "raised" THEN set
                      ELSE OverrideGroups(kind, [groups EXCEPT ![name] = set.value],
                                          key, value, g + 1)
             ELSE OverrideGroups(kind, groups, key, value, g + 1)

\* Lines 22-26: for key, value in config.items(): ...
RECURSIVE ApplyConfig(_, _, _, _)
ApplyConfig(kind, groups, config, i) ==
    IF i > Len(ConfigKeys) THEN Value(groups)
    ELSE IF ConfigKeys[i] \notin DOMAIN config
         THEN ApplyConfig(kind, groups, config, i + 1)
         ELSE LET done_key == OverrideGroups(kind, groups, ConfigKeys[i],
                                             ConfigValue[ConfigKeys[i]], 1)
              IN  IF done_key.kind = "raised" THEN done_key
                  ELSE ApplyConfig(kind, done_key.value, config, i + 1)

\* Lines 28-40: what the trainer is built from.
BuildTrainer(groups) ==
    [optimizer_params |-> groups.optimizer_params,
     model |-> [model_params |-> groups.model_params,
                env_params |-> groups.env_params,
                env_type |-> groups.env_params.env_type],
     env |-> groups.env_params,
     ent_coef |-> groups.run_params.ent_coef,
     nn_train_epochs |-> groups.run_params.nn_train_epochs]

\* AMTrainer.__init__(env_params, model_params, optimizer_params, run_params,
\* config): the trainer built, or the exception raised.
AMTrainer_init(kind, groups, has_config, config) ==
    LET overridden == IF has_config THEN ApplyConfig(kind, groups, config, 1)
                      ELSE Value(groups)
    IN  IF overridden.kind = "raised" THEN overridden
        ELSE Value(BuildTrainer(overridden.value))

ParamGroups ==
    [env_params : [env_type : EnvTypes, num_nodes : {20}],
     model_params : [embedding_dim : {128}],
     optimizer_params : [lr : {1}],
     run_params : [ent_coef : {1}, nn_train_epochs : {10}]]

\* The calls to make: a function and its arguments, the result pending.
DictProductCalls ==
    {[fn |-> "dict_product", dicts |-> dicts, result |-> Pending] :
        dicts \in DictsSet}

\* Calls of concat_key_val on mappings that may share one mutable object.
ConcatKeyValCalls ==
    {[fn |-> "concat_key_val", base |-> c[1], overrides |-> c[2],
      heap0 |-> <<0>>, result |-> Pending, touched |-> FALSE] :
        c \in MappingsOver(BaseKeys)
               \X SeqsUpTo(MappingsOver(OverrideKeys), MaxOverrides)}

AMTrainerCalls ==
    {[fn |-> "AMTrainer.__init__", kind |-> c[1], groups |-> c[2],
      has_config |-> c[3], config |-> c[4], result |-> Pending] :
        c \in {x \in MappingKinds \X ParamGroups \X BOOLEAN \X Configs :
                   x[3] \/ x[4] = <<>>}}

MapInit ==
    /\ tracer = None
    /\ call \in DictProductCalls \cup ConcatKeyValCalls \cup AMTrainerCalls
    /\ heap = IF call.fn = "concat_key_val" THEN call.heap0 ELSE <<>>
    /\ ParIdle
    /\ ModelIdle
    /\ FsIdle

CallDictProduct ==
    /\ call.fn = "dict_product"
    /\ call.result = Pending
    /\ call' = [call EXCEPT !.result = Value(dict_product(call.dicts))]
    /\ UNCHANGED <<tracer, heap, nonUtilVars>>

CallConcatKeyVal ==
    /\ call.fn = "concat_key_val"
    /\ call.result = Pending
    /\ LET out == concat_key_val(<<call.base>> \o call.overrides, heap)
       IN  /\ call' = [call EXCEPT !.result = Value(out.result)]
           /\ heap' = out.heap
    /\ UNCHANGED <<tracer, nonUtilVars>>

\* The result takes its key k from base: no override holds k.
TakenFromBase(k) ==
    /\ k \in DOMAIN call.result.value
    /\ k \in DOMAIN call.base
    /\ \A i \in 1..Len(call.overrides) : k \notin DOMAIN call.overrides[i]

\* The caller changes an entry of the returned mapping that came from base:
\* it rebinds the key, or changes the object the entry holds in place.
ChangeResultEntry ==
    /\ call.fn = "concat_key_val"
    /\ call.result # Pending
    /\ ~call.touched
    /\ \E k \in DOMAIN call.result.value :
          /\ TakenFromBase(k)
          /\ \/ /\ call' = [call EXCEPT
                              !.result = Value(SetItem(call.result.value, k, IntVal(9))),
                              !.touched = TRUE]
                /\ heap' = heap
             \/ /\ call.result.value[k].kind = "ref"
                /\ heap' = [heap EXCEPT ![call.result.value[k].v] = 9]
                /\ call' = [call EXCEPT !.touched = TRUE]
    /\ UNCHANGED <<tracer, nonUtilVars>>

NewAMTrainer ==
    /\ call.fn = "AMTrainer.__init__"
    /\ call.result = Pending
    /\ call' = [call EXCEPT !.result =
                  AMTrainer_init(call.kind, call.groups, call.has_config, call.config)]
    /\ UNCHANGED <<tracer, heap, nonUtilVars>>

MapNext ==
    \/ CallDictProduct
    \/ CallConcatKeyVal
    \/ ChangeResultEntry
    \/ NewAMTrainer

SpecMap == MapInit /\ [][MapNext]_vars

\* The call of fn has returned or raised.
Returned(fn) == call.fn = fn /\ call.result # Pending

\* The groups with every config key that a group holds set to the config value.
OverriddenGroups(groups, config) ==
    [name \in DOMAIN groups |->
        [k \in DOMAIN groups[name] |->
            IF k \in DOMAIN config THEN ConfigValue[k] ELSE groups[name][k]]]

\* C11: constructing AMTrainer with a non-empty config does not fail, and the
\* model, environment and coefficients are built from the parameter groups in
\* which every config key they hold has been overwritten by the config value;
\* keys held by no group change nothing.
C11_ConfigOverridesGroups ==
    (Returned("AMTrainer.__init__") /\ call.has_config /\ call.config # <<>>) =>
        /\ call.result.kind = "value"
        /\ call.result.value =
              BuildTrainer(OverriddenGroups(call.groups, call.config))

RECURSIVE ProdLen(_, _)
ProdLen(dicts, i) ==
    IF i > Len(KeyOrder) THEN 1
    ELSE (IF KeyOrder[i] \in DOMAIN dicts THEN Len(dicts[KeyOrder[i]]) ELSE 1)
         * ProdLen(dicts, i + 1)

NoRepeats(list) ==
    \A i, j \in 1..Len(list) : i # j => list[i] # list[j]

\* C16: dict_product returns one mapping per element of the Cartesian product
\* of the lists: as many mappings as the product of the list lengths (none if
\* a list is empty), each with exactly the input's keys and each key's value
\* drawn from that key's list, every combination present, and no combination
\* twice when no list repeats a value.
C16_DictProductIsCartesian ==
    Returned("dict_product") =>
        LET d == call.dicts
            r == call.result.value
            keys == DOMAIN d
            Combos == {f \in [keys -> NumSimulations] :
                          \A k \in keys : f[k] \in Range(d[k])}
        IN  /\ Len(r) = ProdLen(d, 1)
            /\ \A i \in 1..Len(r) :
                  /\ DOMAIN r[i] = keys
                  /\ \A k \in keys : r[i][k] \in Range(d[k])
            /\ \A f \in Combos : \E i \in 1..Len(r) : r[i] = f
            /\ (\A k \in keys : NoRepeats(d[k])) => NoRepeats(r)

\* C16 witness: two keys with two distinct values each give four mappings.
C16_Witness ==
    /\ Returned("dict_product")
    /\ DOMAIN call.dicts = {"num_simulations", "test_data_idx"}
    /\ call.dicts["num_simulations"] = <<20, 50>>
    /\ call.dicts["test_data_idx"] = <<50, 20>>
    /\ Len(call.result.value) = 4

\* The last of the arguments base, o1, ..., on that holds key k.
LastHolding(k) ==
    LET args == <<call.base>> \o call.overrides
        i == CHOOSE j \in 1..Len(args) :
                /\ k \in DOMAIN args[j]
                /\ \A l \in (j + 1)..Len(args) : k \notin DOMAIN args[l]
    IN  args[i]

\* C15: concat_key_val(base, o1, ..., on) returns a mapping whose keys are the
\* union of the arguments' keys minus 'device', each key holding the value of
\* the last argument that contains it; the call leaves base and the overrides
\* unchanged, and changing afterwards the returned entry of a key taken from
\* base leaves base unchanged.
C15_ConcatKeyVal ==
    Returned("concat_key_val") =>
        LET args == <<call.base>> \o call.overrides
            result == call.result.value
        IN  /\ ~call.touched =>
                  /\ DOMAIN result =
                        UNION {DOMAIN args[i] : i \in 1..Len(args)} \ {"device"}
                  /\ \A k \in DOMAIN result :
                        Deref(result, heap)[k]
                            = Deref(LastHolding(k), call.heap0)[k]
                  /\ \A i \in 1..Len(args) :
                        Deref(args[i], heap) = Deref(args[i], call.heap0)
            /\ Deref(call.base, heap) = Deref(call.base, call.heap0)

\* C15 witness: base holds a mutable object under a key no override holds, an
\* override replaces another key, 'device' is stripped, and the caller has
\* changed the returned object in place.
C15_Witness ==
    /\ Returned("concat_key_val")
    /\ DOMAIN call.base = {"lr", "seed", "device"}
    /\ call.base["seed"] = Ref(1)
    /\ Len(call.overrides) = 1
    /\ DOMAIN call.overrides[1] = {"lr"}
    /\ call.overrides[1]["lr"] # call.base["lr"]
    /\ DOMAIN call.result.value = {"lr", "seed"}
    /\ call.result.value["lr"] = call.overrides[1]["lr"]
    /\ call.touched
    /\ call.result.value["seed"].kind = "ref"
    /\ heap[call.result.value["seed"].v] = 9

----------------------------------------------------------------------------
\* The result summaries of main_mcts_test.py: run_cross_test, main and debug.

NumTestData == 100          \* range(100): the test instances of run_cross_test
LoadFroms == <<20, 50>>     \* for load_from in [20, 50]
TestNums == <<20, 50>>      \* for test_num in [20, 50]
Programs == {"run_cross_test", "main", "debug"}
ResultDirNames == <<"rd1", "rd2">>
Epochs == {"best", "last"}
Averages == {[average |-> 1, std |-> 0], [average |-> 2, std |-> 1]}

\* A file's content: written by a previous run, or by this one.
Previous == [run |-> "previous", data |-> None]
Current(data) == [run |-> "current", data |-> Value(data)]

\* path_format of main and of debug; a path is the sequence of its components
\* below the working directory.
PathFormat(pg) ==
    IF pg = "main" THEN <<"result_summary", "mcts_v2">>
    ELSE <<"result_summary", "debug", "mcts_v2">>

\* f"./result_summary/cross_test_result/mcts/{params['env_type']}"
CrossPath(env_type) == <<"result_summary", "cross_test_result", "mcts", env_type>>

\* The directories an entry point writes its summaries to.
OutputDirs(pg) ==
    IF pg = "run_cross_test" THEN {CrossPath("tsp")}
    ELSE {PathFormat(pg) \o <<ResultDirNames[i]>> : i \in DOMAIN ResultDirNames}

\* The summary file of an output directory: result.json for run_cross_test,
\* all_result_avg.json for main and debug.
SummaryFile(pg, path) ==
    path \o <<IF pg = "run_cross_test" THEN "result.json" ELSE "all_result_avg.json">>

\* A path and all its parents.
WithParents(path) == {SubSeq(path, 1, k) : k \in 0..Len(path)}

\* Path(path).exists(), with no directory at all.
PathExists_Never(ds, path) == FALSE

\* Path(path).exists()
PathExists(ds, path) == path \in ds

\* Path(path).mkdir(parents, exist_ok): the directories afterwards, or the
\* exception raised.
Mkdir(ds, path, parents, exist_ok) ==
    IF path \in ds
    THEN (IF exist_ok THEN Value(ds) ELSE Raised("FileExistsError"))
    ELSE IF parents THEN Value(ds \cup WithParents(path))
    ELSE IF SubSeq(path, 1, Len(path) - 1) \in ds THEN Value(ds \cup {path})
    ELSE Raised("FileNotFoundError")

\* open(path, 'w') and a dump of data: the file is created or truncated.
WriteFile(fl, path, data) ==
    [f \in DOMAIN fl \cup {path} |-> IF f = path THEN Current(data) ELSE fl[f]]

\* save_json(data, path)
save_json(fl, data, path) == WriteFile(fl, path, data)

\* What run_parallel_test may hand to main and debug: nothing, or a mapping
\* result_dir -> load_epoch -> {average, std}.
RunParallelResults ==
    {None} \cup
    {Value(r) : r \in UNION {[S -> UNION {[E -> Averages] : E \in SUBSET Epochs \ {{}}}] :
                                S \in SUBSET Range(ResultDirNames) \ {{}}}}

\* result.keys(), in insertion order.
ResultKeys(r) ==
    IF "rd1" \in DOMAIN r
    THEN (IF "rd2" \in DOMAIN r THEN <<"rd1", "rd2">> ELSE <<"rd1">>)
    ELSE <<"rd2">>

\* The returned tuple of run_test.
AsTuple(r) == <<r.score, r.runtime, r.test_data_idx, r.load_epoch, r.result_dir>>

\* a, b, ... = t with n names on the left: a ValueError unless t has n values.
Unpack(t, n) == IF Len(t) = n THEN Value(t) ELSE Raised("ValueError")

\* test_result[key][test_data_idx] = score, creating test_result[key] if absent.
StoreScore(test_result, key, idx, score) ==
    LET inner == IF key \in DOMAIN test_result THEN test_result[key] ELSE <<>>
    IN  SetItem(test_result, key, SetItem(inner, idx, score))

SummaryInit ==
    /\ prog \in Programs
    /\ \E prev \in SUBSET OutputDirs(prog) :
          /\ dirs = {<<>>} \cup UNION {WithParents(p) : p \in prev}
          /\ files = [f \in {SummaryFile(prog, p) : p \in prev} |-> Previous]
    /\ s_result \in IF prog = "run_cross_test" THEN {Value(<<>>)}
                    ELSE RunParallelResults
    /\ s_pc = "start"
    /\ s_todo = <<>>
    /\ s_err = None
    /\ s_calls = 0
    /\ s_existed = {}
    /\ handlers = <<>>
    /\ log_call = None
    /\ tracer = None
    /\ call = None
    /\ heap = <<>>
    /\ ParIdle
    /\ ModelIdle

\* main, debug: for result_dir in result.keys()
MainResultKeys ==
    /\ prog \in {"main", "debug"}
    /\ s_pc = "start"
    /\ IF s_result = None
       THEN /\ s_err' = Raised("AttributeError")
            /\ s_pc' = "raised"
            /\ s_todo' = s_todo
       ELSE /\ s_todo' = [i \in DOMAIN ResultKeys(s_result.value) |->
                            PathFormat(prog) \o <<ResultKeys(s_result.value)[i]>>]
            /\ s_pc' = "dir"
            /\ s_err' = s_err
    /\ UNCHANGED <<dirs, files, handlers, log_call, prog, s_result, s_calls,
                   s_existed, nonFsVars>>

\* run_cross_test: one pass of the body of the three nested loops.
CrossTestIter ==
    /\ prog = "run_cross_test"
    /\ s_pc = "start"
    /\ s_calls < Len(LoadFroms) * Len(TestNums) * NumTestData
    /\ \E o \in RunOutcomes :
          LET load_from == LoadFroms[(s_calls \div (Len(TestNums) * NumTestData)) + 1]
              test_num == TestNums[((s_calls \div NumTestData) % Len(TestNums)) + 1]
              test_data_idx == s_calls % NumTestData
              params == [num_nodes |-> load_from, test_num |-> test_num,
                         test_data_idx |-> test_data_idx, load_epoch |-> "best",
                         result_dir |-> "pretrained_result", env_type |-> "tsp"]
              \* score, _, test_data_idx = run_test(**params)
              unpacked == Unpack(AsTuple(run_test(params, o[1], o[2])), 3)
              key == <<load_from, test_num>>
          IN  /\ s_calls' = s_calls + 1
              /\ IF unpacked.kind = "raised"
                 THEN /\ s_err' = unpacked
                      /\ s_pc' = "raised"
                      /\ UNCHANGED <<s_result, s_todo>>
                 ELSE /\ s_result' = Value(StoreScore(s_result.value, key,
                                             unpacked.value[3], unpacked.value[1]))
                      /\ s_err' = s_err
                      /\ IF s_calls' = Len(LoadFroms) * Len(TestNums) * NumTestData
                         THEN s_pc' = "dir" /\ s_todo' = <<CrossPath(params.env_type)>>
                         ELSE s_pc' = "start" /\ s_todo' = s_todo
    /\ UNCHANGED <<dirs, files, handlers, log_call, prog, s_existed, nonFsVars>>

\* if not Path(path).exists(): Path(path).mkdir(parents=True, exist_ok=False)
DirStep ==
    /\ s_pc = "dir"
    /\ LET path == Head(s_todo)
       IN  IF ~PathExists(dirs, path)
           THEN LET made == Mkdir(dirs, path, TRUE, FALSE)
                IN  /\ IF made.kind = "raised"
                       THEN s_err' = made /\ s_pc' = "raised" /\ dirs' = dirs
                       ELSE s_err' = s_err /\ s_pc' = "save" /\ dirs' = made.value
                    /\ s_existed' = IF path \in dirs THEN s_existed \cup {path}
                                    ELSE s_existed
           ELSE /\ s_pc' = "save"
                /\ s_existed' = s_existed \cup {path}
                /\ UNCHANGED <<dirs, s_err>>
    /\ UNCHANGED <<files, handlers, log_call, prog, s_result, s_todo, s_calls,
                   nonFsVars>>

\* The files main and debug write for one result directory: <load_epoch>.json
\* for every epoch, then all_result_avg.json.
RECURSIVE SaveEpochs(_, _, _, _)
SaveEpochs(fl, path, by_epoch, todo) ==
    IF todo = {} THEN fl
    ELSE LET load_epoch == CHOOSE e \in todo : TRUE
         IN  SaveEpochs(save_json(fl, by_epoch[load_epoch], path \o <<load_epoch>>),
                        path, by_epoch, todo \ {load_epoch})

\* The writes of one output directory.
SaveStep ==
    /\ s_pc = "save"
    /\ LET path == Head(s_todo)
       IN  IF prog = "run_cross_test"
           THEN files' = WriteFile(files, SummaryFile(prog, path), s_result.value)
           ELSE LET by_epoch == s_result.value[path[Len(path)]]
                    all_result ==
                        [e \in DOMAIN by_epoch |->
                            [result_avg |-> by_epoch[e].average,
                             result_std |-> by_epoch[e].std]]
                IN  files' = save_json(SaveEpochs(files, path, by_epoch, DOMAIN by_epoch),
                                       all_result, SummaryFile(prog, path))
    /\ s_todo' = Tail(s_todo)
    /\ s_pc' = IF Tail(s_todo) = <<>> THEN "done" ELSE "dir"
    /\ UNCHANGED <<dirs, handlers, log_call, prog, s_result, s_err, s_calls,
                   s_existed, nonFsVars>>

SummaryNext ==
    \/ MainResultKeys
    \/ CrossTestIter
    \/ DirStep
    \/ SaveStep

SpecSummary == SummaryInit /\ [][SummaryNext]_vars

\* C12: run_cross_test makes one run_test call per combination of the 2 x 2 x
\* 100 training sizes, test sizes and test instances, stores each score under
\* its combination and instance, and writes the tree of 4 keys with 100 scores
\* each to result_summary/cross_test_result/mcts/<env_type>/result.json.
C12_CrossTestWritesTree ==
    (prog = "run_cross_test" /\ s_pc \in {"raised", "done"}) =>
        /\ s_pc = "done"
        /\ s_calls = Len(LoadFroms) * Len(TestNums) * NumTestData
        /\ SummaryFile(prog, CrossPath("tsp")) \in DOMAIN files
        /\ LET written == files[SummaryFile(prog, CrossPath("tsp"))]
           IN  /\ written.run = "current"
               /\ Cardinality(DOMAIN written.data.value) = 4
               /\ \A key \in DOMAIN written.data.value :
                     Cardinality(DOMAIN written.data.value[key]) = NumTestData

\* C13 as claimed: an output directory found in place makes the directory step
\* fail with an already-exists error, and the run writes no file.
C13_ExistingDirAborts ==
    s_existed # {} =>
        /\ s_pc = "raised"
        /\ s_err = Raised("FileExistsError")
        /\ \A f \in DOMAIN files : files[f].run = "previous"

\* C13: an output directory found in place is reused: the directory step skips
\* mkdir and raises no already-exists error, and the run goes on to write the
\* directory's files, replacing the summary a previous run left there.
C13_ExistingDirReused ==
    /\ s_err # Raised("FileExistsError")
    /\ \A path \in s_existed :
          /\ path \in dirs
          /\ (s_pc = "done" \/ (s_pc = "dir" /\ \A i \in DOMAIN s_todo : s_todo[i] # path))
                => files[SummaryFile(prog, path)].run = "current"

\* C13 witness: main has finished over a directory a previous run left, and
\* the summary file of that run has been replaced.
C13_Witness ==
    /\ prog = "main"
    /\ s_pc = "done"
    /\ PathFormat("main") \o <<"rd1">> \in s_existed
    /\ files[SummaryFile("main", PathFormat("main") \o <<"rd1">>)].run = "current"
    /\ s_err = None

----------------------------------------------------------------------------
\* create_logger (src/common/utils.py)

\* The log_file configurations: each key may be absent; a filepath may hold
\* the placeholder {desc}.
LogKeys == {"filepath", "result_dir", "desc", "filename"}
LogValues ==
    [filepath |-> {"run{desc}"}, result_dir |-> {"logs", "run{desc}"},
     desc |-> {"a"}, filename |-> {"train.txt"}]
LogConfigs ==
    UNION {{c \in [S -> {"run{desc}", "logs", "a", "train.txt"}] :
               \A k \in S : c[k] \in LogValues[k]} : S \in SUBSET LogKeys}

\* filepath.format(desc=d): the placeholder {desc} replaced by d.
FormatDesc(filepath, d) ==
    IF filepath = "run{desc}" THEN (IF d = "_a" THEN "run_a" ELSE "run")
    ELSE filepath

\* The handlers create_logger installs.
FileHandler(filename, mode) == [type |-> "file", filename |-> filename, mode |-> mode]
StreamHandler == [type |-> "console", filename |-> <<>>, mode |-> "-"]
\* A handler some other code attached to the root logger.
ForeignHandler == [type |-> "foreign", filename |-> <<>>, mode |-> "-"]

\* A create_logger that leaves the handlers already attached in place.
RemoveHandlers_Keep(hs) == hs

\* for hdlr in root_logger.handlers[:]: root_logger.removeHandler(hdlr)
RemoveHandlers(hs) == <<>>

\* os.path.isfile(filename)
IsFile(fl, filename) == filename \in DOMAIN fl

\* open(filename, mode) by logging.FileHandler: 'w' creates or truncates the
\* file, 'a' creates it if absent and keeps its content otherwise.
OpenLog(fl, filename, mode) ==
    IF mode = "w" \/ filename \notin DOMAIN fl
    THEN [f \in DOMAIN fl \cup {filename} |->
            IF f = filename THEN Current(<<>>) ELSE fl[f]]
    ELSE fl

\* create_logger(log_file): the directories, files and handlers it leaves, the
\* log file it chose and how it ended.
create_logger(log_file, ds, fl, hs) ==
    IF "filepath" \notin DOMAIN log_file /\ "result_dir" \notin DOMAIN log_file
    THEN [dirs |-> ds, files |-> fl, handlers |-> hs, filename |-> <<>>,
          existed |-> FALSE, outcome |-> "KeyError"]
    ELSE
    LET filepath0 == IF "filepath" \notin DOMAIN log_file THEN log_file["result_dir"]
                     ELSE log_file["filepath"]
        filepath == IF "desc" \in DOMAIN log_file
                    THEN FormatDesc(filepath0, "_a")
                    ELSE FormatDesc(filepath0, "")
        filename == IF "filename" \in DOMAIN log_file
                    THEN <<filepath, log_file["filename"]>>
                    ELSE <<filepath, "log.txt">>
        \* if not os.path.exists(filepath): os.makedirs(filepath)
        ds1 == IF <<filepath>> \notin ds THEN ds \cup WithParents(<<filepath>>) ELSE ds
        file_mode == IF IsFile(fl, filename) THEN "a" ELSE "w"
        removed == RemoveHandlers(hs)
    IN  IF filename \in ds1
        THEN \* logging.FileHandler opens a directory: IsADirectoryError
             [dirs |-> ds1, files |-> fl, handlers |-> removed,
              filename |-> filename, existed |-> filename \in DOMAIN fl,
              outcome |-> "IsADirectoryError"]
        ELSE [dirs |-> ds1, files |-> OpenLog(fl, filename, file_mode),
              handlers |-> removed \o <<FileHandler(filename, file_mode), StreamHandler>>,
              filename |-> filename, existed |-> filename \in DOMAIN fl,
              outcome |-> "returned"]

LogInit ==
    /\ dirs \in {{<<>>}, {<<>>, <<"logs">>, <<"logs", "log.txt">>}}
    /\ files \in {<<>>, [f \in {<<"run", "log.txt">>} |-> Previous]}
    /\ (files # <<>>) => dirs = {<<>>}
    /\ handlers \in {<<>>, <<ForeignHandler>>}
    /\ log_call = None
    /\ prog = "none"
    /\ s_pc = "idle"
    /\ s_result = None
    /\ s_todo = <<>>
    /\ s_err = None
    /\ s_calls = 0
    /\ s_existed = {}
    /\ tracer = None
    /\ call = None
    /\ heap = <<>>
    /\ ParIdle
    /\ ModelIdle

CreateLogger ==
    /\ \E log_file \in LogConfigs :
          LET out == create_logger(log_file, dirs, files, handlers)
          IN  /\ dirs' = out.dirs
              /\ files' = out.files
              /\ handlers' = out.handlers
              /\ log_call' = [log_file |-> log_file, filename |-> out.filename,
                              existed |-> out.existed, outcome |-> out.outcome,
                              earlier |-> log_call # None]
    /\ UNCHANGED <<prog, s_pc, s_result, s_todo, s_err, s_calls, s_existed, nonFsVars>>

LogNext == CreateLogger

SpecLog == LogInit /\ [][LogNext]_vars

----------------------------------------------------------------------------
\* Pool tasks that raise.

\* The nested mapping built from the results of the tasks that returned.
RECURSIVE StoreSucceededFrom(_, _)
StoreSucceededFrom(k, d) ==
    IF k > Len(AllInputParams) THEN d
    ELSE StoreSucceededFrom(k + 1, IF k \in DOMAIN task_result
                                   THEN StoreResult(d, task_result[k]) ELSE d)

\* result_dict has an entry for the (result_dir, load_epoch, test_data_idx) of
\* a task.
HasEntry(kwargs) ==
    /\ kwargs.result_dir \in DOMAIN result_dict
    /\ kwargs.load_epoch \in DOMAIN result_dict[kwargs.result_dir]
    /\ kwargs.test_data_idx
          \in DOMAIN result_dict[kwargs.result_dir][kwargs.load_epoch]

\* C18: with a pool, a task whose run_test raises is not run again and puts
\* nothing into the queue; the results of the other tasks are all collected,
\* and the call returns the aggregation over the tasks that succeeded, with
\* no entry for the failed task's (result_dir, load_epoch, test_data_idx).
C18_FailedTaskSkipped ==
    /\ \A t \in failed : t \notin DOMAIN task_result /\ t \notin running
    /\ Len(queue_buffer) + Len(queue_pipe) <= Cardinality(DOMAIN task_result)
    /\ (pc = "done" /\ failed # {}) =>
          /\ \A t \in DOMAIN task_result : Stored(task_result[t])
          /\ DOMAIN task_result # {} =>
                ret = Value(Organize(StoreSucceededFrom(1, <<>>)))
          /\ \A t \in failed : ~HasEntry(AllInputParams[t])

====
